---- MODULE Spec2Model ----
(***************************************************************************)
(* justone.py: the incremental duplicate-file engine JustOne.              *)
(*                                                                         *)
(* The registry (file_info, file_index) and the three stage indexes        *)
(* (size_dict, small_hash_dict, full_hash_dict) are the state.  update()   *)
(* and duplicates() are the operations.  The file system the engine reads  *)
(* is a fixed tree of directories and regular files whose contents are     *)
(* sequences of 1024-byte chunks (the last chunk may be shorter).          *)
(*                                                                         *)
(* Four specifications share the definitions:                              *)
(*   Spec     update() over regular files and directories, no failure      *)
(*   SpecIO   update() over any path (missing, fifo, symbolic link, a      *)
(*            directory among files, ...) with a read that may fail, in    *)
(*            the build with tqdm and in the build without it              *)
(*   SpecCLI  main(), the command line                                     *)
(*   SpecGet  update() and the record lookup _get_file_info                *)
(***************************************************************************)
EXTENDS Integers, Sequences, FiniteSets, TLC

VARIABLES
    file_info,        \* list of (index, file, file_size, small_hash, full_hash)
    file_index,       \* dict: path -> index
    size_dict,        \* dict: file size -> set of indexes
    small_hash_dict,  \* dict: (file size, small hash) -> set of indexes
    full_hash_dict,   \* dict: full hash -> set of indexes
    ret,              \* what the most recent call returned or raised
    calls,            \* history: one entry per update() call made so far
    has_tqdm,         \* whether "from tqdm import tqdm" succeeded
    cli               \* the most recent run of main(): argv, output, exit status

vars == <<file_info, file_index, size_dict, small_hash_dict, full_hash_dict, ret, calls,
          has_tqdm, cli>>

(***************************************************************************)
(* Bounds of the model.                                                    *)
(***************************************************************************)
\* number of update() calls in one behaviour
MaxCalls == 2
\* number of path arguments of one update() call
MaxArgs == 2
\* the _get_hash call of one update() that raises OSError is one of the
\* first MaxFailAt calls, or none
MaxFailAt == 4
\* number of command line arguments after the program name
MaxArgv == 2
\* the indexes looked up with _get_file_info are -MaxIndex .. MaxIndex
MaxIndex == 3

(***************************************************************************)
(* Values.                                                                 *)
(***************************************************************************)
\* Optional[...] = None of a hash that is not computed yet; digests are >= 0
None == -1

SMALL_HASH_CHUNK_SIZE_DEFAULT == 1024

(***************************************************************************)
(* The file system read by the engine.                                     *)
(*   dA/a    "hello"                 5 bytes                               *)
(*   dA/c    "world"                 5 bytes, same size as a               *)
(*   dA/s/p  BLK + "hello"        1029 bytes                               *)
(*   dB/b    "hello"                 5 bytes, same content as dA/a         *)
(*   dB/q    BLK + "world"        1029 bytes, same size and same first     *)
(*                                 1024 bytes as p, different afterwards   *)
(*   dC/f    a fifo                  0 bytes                               *)
(*   dC/l    a symbolic link to the directory dA/s                         *)
(*   dE      an empty directory                                            *)
(* Every other path does not exist.                                        *)
(***************************************************************************)
TopDirs == {"dA", "dB"}
Dirs == TopDirs \cup {"dA/s", "dC", "dE"}
Files == {"dA/a", "dA/c", "dA/s/p", "dB/b", "dB/q"}
Fifos == {"dC/f"}
DirLinks == {"dC/l"}
\* the regular files seen through a symbolic link to their directory
LinkedFiles == {"dC/l/p"}

\* os.scandir(dp): the entries of a directory, in listing order
ScanEntries(dp) ==
    CASE dp = "dA"   -> <<"dA/a", "dA/c", "dA/s">>
      [] dp = "dA/s" -> <<"dA/s/p">>
      [] dp = "dB"   -> <<"dB/b", "dB/q">>
      [] dp = "dC"   -> <<"dC/f", "dC/l">>
      [] dp = "dC/l" -> <<"dC/l/p">>
      [] OTHER       -> <<>>

\* entry.is_dir() / Path(first).is_dir(): both follow symbolic links
IsDir(p) == p \in Dirs \cup DirLinks

\* stat() succeeds
Exists(p) == p \in Dirs \cup DirLinks \cup Files \cup LinkedFiles \cup Fifos

\* S_ISREG(file.stat().st_mode)
IsReg(p) == p \in Files \cup LinkedFiles

\* the bytes of a file, as its sequence of chunks
Content(fp) ==
    CASE fp = "dA/a"   -> <<"hello">>
      [] fp = "dA/c"   -> <<"world">>
      [] fp = "dA/s/p" -> <<"BLK", "hello">>
      [] fp = "dB/b"   -> <<"hello">>
      [] fp = "dB/q"   -> <<"BLK", "world">>
      [] fp = "dC/l/p" -> <<"BLK", "hello">>
      [] OTHER         -> <<>>

\* number of bytes of a chunk
ChunkLen(c) == IF c = "BLK" THEN SMALL_HASH_CHUNK_SIZE_DEFAULT ELSE 5

RECURSIVE ByteLen(_)
ByteLen(chunks) ==
    IF chunks = <<>> THEN 0 ELSE ChunkLen(Head(chunks)) + ByteLen(Tail(chunks))

\* stat().st_size
StatSize(fp) == ByteLen(Content(fp))

\* f.read(n): the leading chunks that fit in n bytes
RECURSIVE ReadBytes(_, _)
ReadBytes(chunks, n) ==
    IF chunks = <<>> \/ ChunkLen(Head(chunks)) > n
    THEN <<>>
    ELSE <<Head(chunks)>> \o ReadBytes(Tail(chunks), n - ChunkLen(Head(chunks)))

(***************************************************************************)
(* The digest: hash_func(), update(chunk) per chunk, digest().             *)
(***************************************************************************)
HashSeed == 7
HashMul == 31
HashMod == 65536

ChunkCode(c) == CASE c = "hello" -> 1 [] c = "world" -> 2 [] c = "BLK" -> 3 [] OTHER -> 0

HashUpdate(h, c) == (h * HashMul + ChunkCode(c)) % HashMod

RECURSIVE HashFeed(_, _)
HashFeed(h, chunks) ==
    IF chunks = <<>> THEN h ELSE HashFeed(HashUpdate(h, Head(chunks)), Tail(chunks))

\* JustOne._get_hash
GetHash(fp, first_chunk_only) ==
    IF first_chunk_only
    THEN HashFeed(HashSeed, ReadBytes(Content(fp), SMALL_HASH_CHUNK_SIZE_DEFAULT))
    ELSE HashFeed(HashSeed, Content(fp))

(***************************************************************************)
(* Dictionaries (defaultdict(set)) as functions on the keys present.       *)
(***************************************************************************)
EmptyDict == <<>>

DictGet(d, k) == IF k \in DOMAIN d THEN d[k] ELSE {}

\* d[k].add(i)
DictAdd(d, k, i) ==
    [x \in (DOMAIN d) \cup {k} |-> IF x = k THEN DictGet(d, k) \cup {i} ELSE d[x]]

\* for k, v in temp.items(): d[k] = v, the set replaced instead of united
DictMergeOverwrite(d, temp) ==
    [k \in (DOMAIN d) \cup (DOMAIN temp) |-> IF k \in DOMAIN temp THEN temp[k] ELSE d[k]]

\* for k, v in temp.items(): d[k] |= v
DictMerge(d, temp) ==
    [k \in (DOMAIN d) \cup (DOMAIN temp) |-> DictGet(d, k) \cup DictGet(temp, k)]

\* the keys of temp whose merged set has more than one member
Collided(merged, temp) == {k \in DOMAIN temp : Cardinality(merged[k]) > 1}

\* the least element of a non-empty set of indexes
MinOf(S) == CHOOSE x \in S : \A y \in S : x <= y

\* a set of indexes, in ascending order
RECURSIVE Ascending(_)
Ascending(S) ==
    IF S = {} THEN <<>> ELSE <<MinOf(S)>> \o Ascending(S \ {MinOf(S)})

(***************************************************************************)
(* The engine: the five attributes of a JustOne object as one record,      *)
(* with what the run meets outside the object: io.tqdm, whether tqdm2      *)
(* wraps its argument in tuple(); io.fail_at, which _get_hash call of the  *)
(* update() raises OSError (0: none); io.reads, the calls made so far.     *)
(***************************************************************************)
Engine ==
    [file_info |-> file_info, file_index |-> file_index, size_dict |-> size_dict,
     small_hash_dict |-> small_hash_dict, full_hash_dict |-> full_hash_dict,
     io |-> [tqdm |-> has_tqdm, fail_at |-> 0, reads |-> 0]]

\* JustOne.__init__: a new engine
NewEngine ==
    [file_info |-> <<>>, file_index |-> <<>>, size_dict |-> <<>>,
     small_hash_dict |-> <<>>, full_hash_dict |-> <<>>,
     io |-> [tqdm |-> has_tqdm, fail_at |-> 0, reads |-> 0]]

\* the engine at the start of an update() whose fail_at-th read fails
WithFailAt(e, fail_at) == [e EXCEPT !.io.fail_at = fail_at, !.io.reads = 0]

\* open() or read() in the next _get_hash call raises OSError
ReadFails(e) == e.io.reads + 1 = e.io.fail_at

\* self.file_info[index]
InfoAt(e, index) == e.file_info[index + 1]

\* JustOne._add_file_info
AddFileInfo(e, file, file_size) ==
    LET index == IF file \in DOMAIN e.file_index THEN e.file_index[file] ELSE None
    IN  IF index = None
        THEN [e |-> [e EXCEPT !.file_info =
                        Append(@, [index |-> Len(@), file |-> file,
                                   file_size |-> file_size,
                                   small_hash |-> None, full_hash |-> None])],
              index |-> Len(e.file_info)]
        ELSE [e |-> e, index |-> index]

\* JustOne._get_small_hash; computed tells whether the file was read, oserror
\* whether _get_hash raised OSError, which leaves the record as it was
GetSmallHash(e, index) ==
    LET rec == InfoAt(e, index)
    IN  IF rec.small_hash # None
        THEN [e |-> e, hash |-> rec.small_hash, computed |-> FALSE, oserror |-> FALSE]
        ELSE IF ReadFails(e)
        THEN [e |-> [e EXCEPT !.io.reads = @ + 1],
              hash |-> None, computed |-> FALSE, oserror |-> TRUE]
        ELSE [e |-> [e EXCEPT !.file_info[index + 1].small_hash = GetHash(rec.file, TRUE),
                              !.io.reads = @ + 1],
              hash |-> GetHash(rec.file, TRUE), computed |-> TRUE, oserror |-> FALSE]

\* _get_full_hash with the digest taken of the first chunk only
GetFullHashOfFirstChunk(e, index) ==
    LET rec == InfoAt(e, index)
    IN  IF rec.full_hash # None
        THEN [e |-> e, hash |-> rec.full_hash, computed |-> FALSE, oserror |-> FALSE]
        ELSE IF ReadFails(e)
        THEN [e |-> [e EXCEPT !.io.reads = @ + 1],
              hash |-> None, computed |-> FALSE, oserror |-> TRUE]
        ELSE [e |-> [e EXCEPT !.file_info[index + 1].full_hash = GetHash(rec.file, TRUE),
                              !.io.reads = @ + 1],
              hash |-> GetHash(rec.file, TRUE), computed |-> TRUE, oserror |-> FALSE]

\* JustOne._get_full_hash; computed tells whether the file was read, oserror
\* whether _get_hash raised OSError, which leaves the record as it was
GetFullHash(e, index) ==
    LET rec == InfoAt(e, index)
    IN  IF rec.full_hash # None
        THEN [e |-> e, hash |-> rec.full_hash, computed |-> FALSE, oserror |-> FALSE]
        ELSE IF ReadFails(e)
        THEN [e |-> [e EXCEPT !.io.reads = @ + 1],
              hash |-> None, computed |-> FALSE, oserror |-> TRUE]
        ELSE [e |-> [e EXCEPT !.file_info[index + 1].full_hash = GetHash(rec.file, FALSE),
                              !.io.reads = @ + 1],
              hash |-> GetHash(rec.file, FALSE), computed |-> TRUE, oserror |-> FALSE]

\* _merge_size_dict without the len(index_set) > 1 cut
MergeSizeDictNoCut(e, size_dict_temp) ==
    LET merged == DictMerge(e.size_dict, size_dict_temp)
    IN  [e |-> [e EXCEPT !.size_dict = merged],
         yielded |-> UNION {{<<k, i>> : i \in size_dict_temp[k]} :
                               k \in DOMAIN size_dict_temp}]

\* JustOne._merge_size_dict: the (size, index) pairs it yields
MergeSizeDict(e, size_dict_temp) ==
    LET merged == DictMerge(e.size_dict, size_dict_temp)
    IN  [e |-> [e EXCEPT !.size_dict = merged],
         yielded |-> UNION {{<<k, i>> : i \in size_dict_temp[k]} :
                               k \in Collided(merged, size_dict_temp)}]

\* JustOne._merge_small_hash_dict: the indexes it yields
MergeSmallHashDict(e, small_hash_dict_temp) ==
    LET merged == DictMerge(e.small_hash_dict, small_hash_dict_temp)
    IN  [e |-> [e EXCEPT !.small_hash_dict = merged],
         yielded |-> UNION {small_hash_dict_temp[k] :
                               k \in Collided(merged, small_hash_dict_temp)}]

\* _merge_full_hash_dict with len(index_set) > 1 tested before index_set |= v
MergeFullHashDictTestBeforeMerge(e, full_hash_dict_temp) ==
    LET merged == DictMerge(e.full_hash_dict, full_hash_dict_temp)
    IN  [e |-> [e EXCEPT !.full_hash_dict = merged],
         yielded |-> UNION {full_hash_dict_temp[k] :
                               k \in {x \in DOMAIN full_hash_dict_temp :
                                        Cardinality(DictGet(e.full_hash_dict, x)) > 1}}]

\* _merge_full_hash_dict yielding index_set, the merged set, instead of v
MergeFullHashDictYieldMerged(e, full_hash_dict_temp) ==
    LET merged == DictMerge(e.full_hash_dict, full_hash_dict_temp)
    IN  [e |-> [e EXCEPT !.full_hash_dict = merged],
         yielded |-> UNION {merged[k] : k \in Collided(merged, full_hash_dict_temp)}]

\* JustOne._merge_full_hash_dict: the indexes it yields
MergeFullHashDict(e, full_hash_dict_temp) ==
    LET merged == DictMerge(e.full_hash_dict, full_hash_dict_temp)
    IN  [e |-> [e EXCEPT !.full_hash_dict = merged],
         yielded |-> UNION {full_hash_dict_temp[k] :
                               k \in Collided(merged, full_hash_dict_temp)}]

\* the frame when reading a key of a defaultdict has created the key
BatchStartTouching(e) ==
    [e |-> [e EXCEPT !.size_dict = DictMerge(@, [k \in {0} |-> {}])],
     size_dict_temp |-> EmptyDict,
     size_keys |-> <<>>,
     small_hash_dict_temp |-> EmptyDict,
     small_keys |-> <<>>,
     full_hash_dict_temp |-> EmptyDict,
     duplicate_files_index |-> {},
     raised |-> "none",
     log |-> [ingested |-> {}, small |-> {}, full |-> {},
              lone_size |-> {}, lone_small |-> {}]]

\* the frame of _update_multiple_files_with_size: the engine, the three
\* temporary dictionaries (size_keys and small_keys are the insertion order of
\* the keys of the first two), duplicate_files_index, the exception raised
\* ("none": the batch is still running), with the record of the batch: the
\* indexes registered and read, and the indexes that stood alone under their
\* key right after the size merge and after the small hash merge
BatchStart(e) ==
    [e |-> e,
     size_dict_temp |-> EmptyDict,
     size_keys |-> <<>>,
     small_hash_dict_temp |-> EmptyDict,
     small_keys |-> <<>>,
     full_hash_dict_temp |-> EmptyDict,
     duplicate_files_index |-> {},
     raised |-> "none",
     log |-> [ingested |-> {}, small |-> {}, full |-> {},
              lone_size |-> {}, lone_small |-> {}]]

\* raise: the batch ends here with this exception
Raise(b, exception) == [b EXCEPT !.raised = exception]

\* the indexes of a batch that are the only member of their size_dict set
LoneInSize(e, ingested) ==
    {i \in ingested : Cardinality(DictGet(e.size_dict, InfoAt(e, i).file_size)) = 1}

\* the indexes of a batch that are the only member of their small_hash_dict set
LoneInSmall(e, ingested) ==
    {i \in ingested :
        /\ InfoAt(e, i).small_hash # None
        /\ DictGet(e.small_hash_dict,
                   <<InfoAt(e, i).file_size, InfoAt(e, i).small_hash>>) = {i}}

\* the position of a key in the insertion order of its dictionary
KeyRank(keys, k) == CHOOSE n \in 1..Len(keys) : keys[n] = k

\* the key of a temporary dictionary an index was added under
KeyOf(temp, i) == CHOOSE k \in DOMAIN temp : i \in temp[k]

\* all the indexes of a dictionary
DictIndexes(d) == UNION {d[k] : k \in DOMAIN d}

\* for k, v in temp.items() as the loop that consumes a _merge_* generator
\* drives it: without tqdm the generator merges one key, hands out the
\* indexes of that key and is resumed for the next key only when the loop
\* asks for more; with tqdm, tuple() runs the generator to its end first
Advances(temp, keys, tqdm) ==
    IF tqdm
    THEN <<temp>>
    ELSE [n \in 1..Len(keys) |-> [x \in {keys[n]} |-> temp[keys[n]]]]

\* first loop: register every file, fill size_dict_temp
RECURSIVE IngestLoop(_, _)
IngestLoop(b, files_with_size) ==
    IF files_with_size = <<>>
    THEN b
    ELSE LET file == Head(files_with_size)[1]
             file_size == Head(files_with_size)[2]
             r == AddFileInfo(b.e, file, file_size)
         IN  IngestLoop([b EXCEPT !.e = r.e,
                                  !.size_dict_temp = DictAdd(@, file_size, r.index),
                                  !.size_keys = IF file_size \in DOMAIN b.size_dict_temp
                                                THEN @ ELSE Append(@, file_size),
                                  !.log.ingested = @ \cup {r.index}],
                        Tail(files_with_size))

\* the second loop filing under (small_hash, file_size), the key turned round
RECURSIVE SmallHashLoopKeyTurned(_, _)
SmallHashLoopKeyTurned(b, todo) ==
    IF todo = {} \/ b.raised # "none"
    THEN b
    ELSE LET p == CHOOSE x \in todo : \A y \in todo :
                      \/ KeyRank(b.size_keys, x[1]) < KeyRank(b.size_keys, y[1])
                      \/ x[1] = y[1] /\ x[2] <= y[2]
             r == GetSmallHash(b.e, p[2])
         IN  IF r.oserror
             THEN Raise([b EXCEPT !.e = r.e], "UpdateError")
             ELSE SmallHashLoopKeyTurned(
                      [b EXCEPT !.e = r.e,
                                !.small_hash_dict_temp = DictAdd(@, <<r.hash, p[1]>>, p[2]),
                                !.small_keys =
                                    IF <<r.hash, p[1]>> \in DOMAIN b.small_hash_dict_temp
                                    THEN @ ELSE Append(@, <<r.hash, p[1]>>),
                                !.log.small = IF r.computed THEN @ \cup {p[2]} ELSE @],
                      todo \ {p})

\* second loop, body: small hash of every yielded (size, index), in the order
\* of the keys and of the indexes; fill small_hash_dict_temp; an OSError of
\* the read ends the batch with UpdateError
RECURSIVE SmallHashLoop(_, _)
SmallHashLoop(b, todo) ==
    IF todo = {} \/ b.raised # "none"
    THEN b
    ELSE LET p == CHOOSE x \in todo : \A y \in todo :
                      \/ KeyRank(b.size_keys, x[1]) < KeyRank(b.size_keys, y[1])
                      \/ x[1] = y[1] /\ x[2] <= y[2]
             r == GetSmallHash(b.e, p[2])
         IN  IF r.oserror
             THEN Raise([b EXCEPT !.e = r.e], "UpdateError")
             ELSE SmallHashLoop([b EXCEPT !.e = r.e,
                                          !.small_hash_dict_temp =
                                              DictAdd(@, <<p[1], r.hash>>, p[2]),
                                          !.small_keys =
                                              IF <<p[1], r.hash>> \in DOMAIN b.small_hash_dict_temp
                                              THEN @ ELSE Append(@, <<p[1], r.hash>>),
                                          !.log.small =
                                              IF r.computed THEN @ \cup {p[2]} ELSE @],
                                todo \ {p})

\* third loop, body: full hash of every yielded index, in the order of the
\* keys and of the indexes; fill full_hash_dict_temp; an OSError of the read
\* ends the batch with UpdateError
RECURSIVE FullHashLoop(_, _)
FullHashLoop(b, todo) ==
    IF todo = {} \/ b.raised # "none"
    THEN b
    ELSE LET i == CHOOSE x \in todo : \A y \in todo :
                      \/ KeyRank(b.small_keys, KeyOf(b.small_hash_dict_temp, x))
                           < KeyRank(b.small_keys, KeyOf(b.small_hash_dict_temp, y))
                      \/ /\ KeyOf(b.small_hash_dict_temp, x) = KeyOf(b.small_hash_dict_temp, y)
                         /\ x <= y
             r == GetFullHash(b.e, i)
         IN  IF r.oserror
             THEN Raise([b EXCEPT !.e = r.e], "UpdateError")
             ELSE FullHashLoop([b EXCEPT !.e = r.e,
                                         !.full_hash_dict_temp = DictAdd(@, r.hash, i),
                                         !.log.full = IF r.computed THEN @ \cup {i} ELSE @],
                               todo \ {i})

\* second loop, one advance of _merge_size_dict after the other
RECURSIVE SizeAdvance(_, _)
SizeAdvance(b, advances) ==
    IF advances = <<>> \/ b.raised # "none"
    THEN b
    ELSE LET m == MergeSizeDict(b.e, Head(advances))
         IN  SizeAdvance(
                 SmallHashLoop([b EXCEPT !.e = m.e,
                                         !.log.lone_size =
                                             @ \cup LoneInSize(m.e, DictIndexes(Head(advances)))],
                               m.yielded),
                 Tail(advances))

\* third loop, one advance of _merge_small_hash_dict after the other
RECURSIVE SmallAdvance(_, _)
SmallAdvance(b, advances) ==
    IF advances = <<>> \/ b.raised # "none"
    THEN b
    ELSE LET m == MergeSmallHashDict(b.e, Head(advances))
         IN  SmallAdvance(
                 FullHashLoop([b EXCEPT !.e = m.e,
                                        !.log.lone_small =
                                            @ \cup LoneInSmall(m.e, DictIndexes(Head(advances)))],
                              m.yielded),
                 Tail(advances))

\* second loop: over what _merge_size_dict yields
SizeStage(b) == SizeAdvance(b, Advances(b.size_dict_temp, b.size_keys, b.e.io.tqdm))

\* third loop: over what _merge_small_hash_dict yields
SmallStage(b) ==
    SmallAdvance(b, Advances(b.small_hash_dict_temp, b.small_keys, b.e.io.tqdm))

\* fourth loop: over what _merge_full_hash_dict yields; its body cannot raise
FullStage(b) ==
    IF b.raised # "none"
    THEN b
    ELSE LET m == MergeFullHashDict(b.e, b.full_hash_dict_temp)
         IN  [b EXCEPT !.e = m.e, !.duplicate_files_index = @ \cup m.yielded]

\* what a batch hands back: the engine, the exception raised, the indexes
\* returned, the record
BatchOut(b) ==
    [e |-> b.e,
     raised |-> b.raised,
     log |-> [result |-> b.duplicate_files_index, ingested |-> b.log.ingested,
              small |-> b.log.small, full |-> b.log.full,
              lone_size |-> b.log.lone_size, lone_small |-> b.log.lone_small]]

\* JustOne._update_multiple_files_with_size
UpdateMultipleFilesWithSize(e, files_with_size) ==
    BatchOut(FullStage(SmallStage(SizeStage(IngestLoop(BatchStart(e), files_with_size)))))

\* the exception the loop of _update_multiple_files raises at this path
FileCheck(file) ==
    IF ~Exists(file) THEN "FileNotFoundError"
    ELSE IF ~IsReg(file) THEN "UpdateError"
    ELSE "none"

\* _update_multiple_files leaving out the paths that fail the stat test instead
\* of raising
UpdateMultipleFilesSkipping(e, files) ==
    LET kept == SelectSeq(files, LAMBDA f : FileCheck(f) = "none")
    IN  UpdateMultipleFilesWithSize(e,
            [i \in 1..Len(kept) |-> <<kept[i], StatSize(kept[i])>>])

\* JustOne._update_multiple_files: the loop stats every path and stops at the
\* first one that is missing or not a regular file, before any is registered
UpdateMultipleFiles(e, files) ==
    LET bad == {n \in 1..Len(files) : FileCheck(files[n]) # "none"}
    IN  IF bad # {}
        THEN BatchOut(Raise(BatchStart(e), FileCheck(files[MinOf(bad)])))
        ELSE UpdateMultipleFilesWithSize(e,
                 [i \in 1..Len(files) |-> <<files[i], StatSize(files[i])>>])

\* JustOne._scan_dir, the loop over the entries: depth first, a directory is
\* replaced by what its own scan yields, any other entry is yielded
RECURSIVE ScanList(_)
ScanList(entries) ==
    IF entries = <<>> THEN <<>>
    ELSE (IF IsDir(Head(entries))
          THEN ScanList(ScanEntries(Head(entries)))
          ELSE <<Head(entries)>>)
         \o ScanList(Tail(entries))

\* JustOne._scan_dir
ScanDir(dp) == ScanList(ScanEntries(dp))

\* the exception os.scandir(dp) raises
ScanCheck(dp) ==
    IF ~Exists(dp) THEN "FileNotFoundError"
    ELSE IF ~IsDir(dp) THEN "NotADirectoryError"
    ELSE "none"

\* JustOne._update_single_directory: files_with_size is a generator, so
\* os.scandir runs, and raises, inside the first loop of the batch and not
\* inside the try statement
UpdateSingleDirectory(e, single_dir) ==
    IF ScanCheck(single_dir) # "none"
    THEN BatchOut(Raise(BatchStart(e), ScanCheck(single_dir)))
    ELSE LET entries == ScanDir(single_dir)
         IN  UpdateMultipleFilesWithSize(e,
                 [i \in 1..Len(entries) |-> <<entries[i], StatSize(entries[i])>>])

\* what a call leaves: the engine, the exception raised, the indexes returned,
\* one record per batch
CallOut(e, raised, result, batches) ==
    [e |-> e, raised |-> raised, result |-> result, batches |-> batches]

\* JustOne._update_multiple_directories: one batch per directory
RECURSIVE DirsLoop(_, _)
DirsLoop(acc, dirs) ==
    IF dirs = <<>> \/ acc.raised # "none" THEN acc
    ELSE LET b == UpdateSingleDirectory(acc.e, Head(dirs))
         IN  DirsLoop(CallOut(b.e, b.raised, acc.result \cup b.log.result,
                              Append(acc.batches, b.log)),
                      Tail(dirs))

UpdateMultipleDirectories(e, dirs) == DirsLoop(CallOut(e, "none", {}, <<>>), dirs)

\* tuple(self._get_file_info(i)[0] for i in indexes)
PathsOf(e, indexes) ==
    LET order == Ascending(indexes)
    IN  [n \in 1..Len(order) |-> InfoAt(e, order[n]).file]

\* what duplicates() yields: one tuple of paths per key of full_hash_dict
DuplicateGroups(e) == {PathsOf(e, e.full_hash_dict[k]) : k \in DOMAIN e.full_hash_dict}

(***************************************************************************)
(* Arguments of update().                                                  *)
(***************************************************************************)
SeqsUpTo(S, n) == UNION {[1..m -> S] : m \in 0..n}

\* file arguments: the submission order only renumbers the records, and one call
\* names a file at most once (a path comes back in a later call, or when its
\* directory is named twice), so the sequences are taken in increasing order of
\* a fixed ranking of the files
FileRank(fp) ==
    CASE fp = "dA/a" -> 1 [] fp = "dA/c" -> 2 [] fp = "dA/s/p" -> 3
      [] fp = "dB/b" -> 4 [] fp = "dB/q" -> 5 [] OTHER -> 0

FileArgs ==
    {s \in SeqsUpTo(Files, MaxArgs) :
        \A i \in 1..(Len(s) - 1) : FileRank(s[i]) < FileRank(s[i + 1])}

DirArgs == SeqsUpTo(TopDirs, MaxArgs) \ {<<>>}

UpdateArgs == FileArgs \cup DirArgs

(***************************************************************************)
(* The operations.                                                         *)
(***************************************************************************)
\* a new JustOne object, nothing called yet, main() not run
Created ==
    /\ file_info = <<>>
    /\ file_index = EmptyDict
    /\ size_dict = EmptyDict
    /\ small_hash_dict = EmptyDict
    /\ full_hash_dict = EmptyDict
    /\ ret = [op |-> "init", raised |-> "none", paths |-> <<>>, groups |-> {}]
    /\ calls = <<>>
    /\ cli = [argv |-> <<>>, out |-> "idle", printed |-> {}, status |-> 0]

\* no read fails in Spec, and then the two builds do the same
Init == Created /\ has_tqdm = FALSE

\* the branch of update() taken for these arguments
UpdateMode(args) ==
    IF args = <<>> THEN "none" ELSE IF IsDir(args[1]) THEN "dirs" ELSE "files"

\* update() that puts the engine back as it was when the call raises
UpdateOutRollback(e, args) ==
    LET out == CASE UpdateMode(args) = "none"  -> CallOut(e, "none", {}, <<>>)
                 [] UpdateMode(args) = "dirs"  -> UpdateMultipleDirectories(e, args)
                 [] UpdateMode(args) = "files" ->
                       CallOut(UpdateMultipleFiles(e, args).e,
                               UpdateMultipleFiles(e, args).raised,
                               UpdateMultipleFiles(e, args).log.result,
                               <<UpdateMultipleFiles(e, args).log>>)
    IN  IF out.raised = "none"
        THEN out
        ELSE [out EXCEPT !.e = [e EXCEPT !.io = out.e.io]]

\* the body of update(): the outcome of the call for these arguments
UpdateOut(e, args) ==
    CASE UpdateMode(args) = "none"  -> CallOut(e, "none", {}, <<>>)
      [] UpdateMode(args) = "dirs"  -> UpdateMultipleDirectories(e, args)
      [] UpdateMode(args) = "files" ->
            LET b == UpdateMultipleFiles(e, args)
            IN  CallOut(b.e, b.raised, b.log.result, <<b.log>>)

\* JustOne.update(*args) when the fail_at-th read of the call fails (0: none);
\* the history keeps the number of reads made and which of them failed (0: none)
UpdateIO(args, fail_at) ==
    /\ Len(calls) < MaxCalls
    /\ \E out \in {UpdateOut(WithFailAt(Engine, fail_at), args)} :
           /\ file_info' = out.e.file_info
           /\ file_index' = out.e.file_index
           /\ size_dict' = out.e.size_dict
           /\ small_hash_dict' = out.e.small_hash_dict
           /\ full_hash_dict' = out.e.full_hash_dict
           /\ ret' = [op |-> "update", raised |-> out.raised,
                      paths |-> IF out.raised = "none"
                                THEN PathsOf(out.e, out.result) ELSE <<>>,
                      groups |-> {}]
           /\ calls' = Append(calls,
                          [mode |-> UpdateMode(args), args |-> args,
                           raised |-> out.raised,
                           result |-> IF out.raised = "none" THEN out.result ELSE {},
                           batches |-> out.batches,
                           failed_read |-> IF out.e.io.reads >= fail_at THEN fail_at ELSE 0,
                           reads |-> out.e.io.reads])
    /\ UNCHANGED <<has_tqdm, cli>>

\* JustOne.update(*args), every read succeeding
Update(args) == UpdateIO(args, 0)

\* JustOne.duplicates()
Duplicates ==
    /\ ret' = [op |-> "duplicates", raised |-> "none", paths |-> <<>>,
               groups |-> DuplicateGroups(Engine)]
    /\ UNCHANGED <<file_info, file_index, size_dict, small_hash_dict, full_hash_dict,
                   calls, has_tqdm, cli>>

Next ==
    \/ \E args \in UpdateArgs : Update(args)
    \/ Duplicates

Spec == Init /\ [][Next]_vars

(***************************************************************************)
(* update() over any kind of path, with a read that may fail.              *)
(***************************************************************************)
\* the argument lists: nothing, an empty directory, a directory with two
\* sizes, files that reach the full hash, a directory that holds a fifo and
\* a symbolic link, a missing path, a fifo and a directory among files, a
\* file among directories
IOArgs ==
    {<<>>,
     <<"dE">>,
     <<"dA">>,
     <<"dC">>,
     <<"dA/a", "dB/b">>,
     <<"dA/s/p", "dB/q">>,
     <<"dB/gone">>,
     <<"dA/s/p", "dC/f">>,
     <<"dA/a", "dA">>,
     <<"dB", "dA/a">>}

InitIO == Created /\ has_tqdm \in BOOLEAN

NextIO ==
    \/ \E args \in IOArgs, fail_at \in 0..MaxFailAt : UpdateIO(args, fail_at)
    \/ Duplicates

SpecIO == InitIO /\ [][NextIO]_vars

(***************************************************************************)
(* The command line.                                                       *)
(***************************************************************************)
\* the words of a command line
CliWords ==
    {"-h", "--help", "dA", "dB", "dC", "dE", "dA/s", "dA/a", "dC/f", "dB/gone"}

\* sys.argv[1:]
Argvs == SeqsUpTo(CliWords, MaxArgv)

\* print_duplicates(dp): what it prints and returns; an exception that is not
\* a JustOneError leaves main() uncaught and the interpreter exits with 1
PrintDuplicates(dp, fail_at) ==
    LET out == UpdateOut(WithFailAt(NewEngine, fail_at), <<dp>>)
    IN  IF out.raised = "none"
        THEN [out |-> "duplicates", printed |-> DuplicateGroups(out.e), returned |-> 0]
        ELSE IF out.raised = "UpdateError"
        THEN [out |-> "error", printed |-> {}, returned |-> 1]
        ELSE [out |-> "traceback", printed |-> {}, returned |-> 1]

\* main(): what it prints and returns; a bare return hands back None
MainOut(argv, fail_at) ==
    IF Len(argv) = 0
    THEN [out |-> "usage", printed |-> {}, returned |-> 0]
    ELSE IF Len(argv) > 1
    THEN [out |-> "usage", printed |-> {}, returned |-> 1]
    ELSE IF argv[1] \in {"-h", "--help"}
    THEN [out |-> "usage", printed |-> {}, returned |-> 0]
    ELSE IF ~IsDir(argv[1])
    THEN [out |-> "not a folder", printed |-> {}, returned |-> None]
    ELSE PrintDuplicates(argv[1], fail_at)

\* sys.exit(arg): None is exit status 0
SysExit(arg) == IF arg = None THEN 0 ELSE arg

\* sys.exit(main()) for this command line
Main(argv, fail_at) ==
    /\ \E run \in {MainOut(argv, fail_at)} :
           cli' = [argv |-> argv, out |-> run.out, printed |-> run.printed,
                   status |-> SysExit(run.returned)]
    /\ UNCHANGED <<file_info, file_index, size_dict, small_hash_dict, full_hash_dict,
                   ret, calls, has_tqdm>>

InitCLI == Created /\ has_tqdm \in BOOLEAN

NextCLI == \E argv \in Argvs, fail_at \in 0..MaxFailAt : Main(argv, fail_at)

SpecCLI == InitCLI /\ [][NextCLI]_vars

(***************************************************************************)
(* The record lookup.                                                      *)
(***************************************************************************)
\* self.file_info[index], a Python list subscript: an index from -len to -1
\* counts from the end of the list, any index outside -len .. len - 1 raises
\* IndexError
ListSubscript(list, index) ==
    IF 0 <= index /\ index < Len(list)
    THEN [raised |-> "none", item |-> list[index + 1]]
    ELSE IF -Len(list) <= index /\ index < 0
    THEN [raised |-> "none", item |-> list[Len(list) + index + 1]]
    ELSE [raised |-> "IndexError", item |-> None]

\* JustOne._get_file_info: IndexError is raised as GetFileInfoError
GetFileInfo(e, index) ==
    LET got == ListSubscript(e.file_info, index)
    IN  IF got.raised = "IndexError"
        THEN [raised |-> "GetFileInfoError", info |-> <<>>]
        ELSE [raised |-> "none",
              info |-> <<got.item.file, got.item.file_size,
                         got.item.small_hash, got.item.full_hash>>]

\* a call of _get_file_info(index)
GetFileInfoCall(index) ==
    /\ \E got \in {GetFileInfo(Engine, index)} :
           ret' = [op |-> "get", index |-> index, raised |-> got.raised,
                   info |-> got.info, paths |-> <<>>, groups |-> {}]
    /\ UNCHANGED <<file_info, file_index, size_dict, small_hash_dict, full_hash_dict,
                   calls, has_tqdm, cli>>

InitGet == Created /\ has_tqdm = FALSE

NextGet ==
    \/ \E args \in IOArgs : Update(args)
    \/ \E index \in (-MaxIndex)..MaxIndex : GetFileInfoCall(index)

SpecGet == InitGet /\ [][NextGet]_vars

(***************************************************************************)
(* Vocabulary of the properties.                                           *)
(***************************************************************************)
Indexes == 0..(Len(file_info) - 1)

Rec(i) == file_info[i + 1]

Range(s) == {s[n] : n \in 1..Len(s)}

\* the two records hold byte-identical files
SameContent(i, j) == Content(Rec(i).file) = Content(Rec(j).file)

\* the indexes a call registered, and those whose small / full hash it computed
CallIngested(c) == UNION {c.batches[b].ingested : b \in 1..Len(c.batches)}
CallSmall(c) == UNION {c.batches[b].small : b \in 1..Len(c.batches)}
CallFull(c) == UNION {c.batches[b].full : b \in 1..Len(c.batches)}

\* the most recent update() call
LastCall == calls[Len(calls)]

\* the state is the one update() has just returned in
JustUpdated == ret.op = "update" /\ calls # <<>>

\* some group of duplicates() holds both paths
Grouped(x, y) == \E g \in DuplicateGroups(Engine) : x \in Range(g) /\ y \in Range(g)

\* the bytes _get_hash feeds to the digest
BytesHashed(fp, first_chunk_only) ==
    IF first_chunk_only
    THEN ReadBytes(Content(fp), SMALL_HASH_CHUNK_SIZE_DEFAULT)
    ELSE Content(fp)

\* the digest is injective on the contents in play
DigestInjective ==
    \A f \in Files, g \in Files, x \in BOOLEAN, y \in BOOLEAN :
        GetHash(f, x) = GetHash(g, y) => BytesHashed(f, x) = BytesHashed(g, y)

(***************************************************************************)
(* C1 - cumulative membership.                                             *)
(***************************************************************************)
\* C1: two records of different paths and identical content that were
\* registered by two different update() calls are together in one group of
\* duplicates().
C1_CumulativeMembership ==
    \A m \in 1..Len(calls), n \in 1..Len(calls) :
        m < n =>
            \A i \in CallIngested(calls[m]), j \in CallIngested(calls[n]) :
                (Rec(i).file # Rec(j).file /\ SameContent(i, j))
                    => Grouped(Rec(i).file, Rec(j).file)

(***************************************************************************)
(* C2 - cross-call reporting.                                              *)
(***************************************************************************)
\* C2: when a directory update follows an earlier directory update and
\* registers a file whose content equals that of a file of another path
\* registered by the earlier call, the later call returns the later file.
C2_CrossCallReporting ==
    (JustUpdated /\ LastCall.mode = "dirs") =>
        \A m \in 1..(Len(calls) - 1) :
            calls[m].mode = "dirs" =>
                \A i \in CallIngested(calls[m]), j \in CallIngested(LastCall) :
                    (Rec(i).file # Rec(j).file /\ SameContent(i, j))
                        => Rec(j).file \in Range(ret.paths)

(***************************************************************************)
(* C3 - grouping soundness.                                                *)
(***************************************************************************)
\* C3: with a digest that is injective on the contents in play, no set of
\* full_hash_dict holds two records of different content and no group of
\* duplicates() holds two paths of different content.
C3_GroupingSoundness ==
    DigestInjective =>
        /\ \A k \in DOMAIN full_hash_dict :
              \A i \in full_hash_dict[k], j \in full_hash_dict[k] : SameContent(i, j)
        /\ \A g \in DuplicateGroups(Engine) :
              \A x \in Range(g), y \in Range(g) : Content(x) = Content(y)

\* two fully hashed records of equal size and equal small hash, different in
\* content, next to a full-hash set of two records
C3_Witness ==
    /\ DigestInjective
    /\ \E i \in Indexes, j \in Indexes :
          /\ Rec(i).file_size = Rec(j).file_size
          /\ Rec(i).small_hash # None /\ Rec(i).small_hash = Rec(j).small_hash
          /\ Rec(i).full_hash # None /\ Rec(j).full_hash # None
          /\ ~SameContent(i, j)
    /\ \E k \in DOMAIN full_hash_dict : Cardinality(full_hash_dict[k]) > 1

(***************************************************************************)
(* C4 - same-batch completeness.                                           *)
(***************************************************************************)
\* C4: a file-mode update() that is given two different paths of identical
\* content returns both and leaves both in one group of duplicates().
C4_SameBatchCompleteness ==
    (JustUpdated /\ LastCall.mode = "files") =>
        \A x \in Range(LastCall.args), y \in Range(LastCall.args) :
            (x # y /\ Content(x) = Content(y)) =>
                /\ x \in Range(ret.paths)
                /\ y \in Range(ret.paths)
                /\ Grouped(x, y)

\* such a call was made on a registry that already held records
C4_Witness ==
    /\ JustUpdated /\ LastCall.mode = "files" /\ Len(calls) > 1
    /\ CallIngested(calls[1]) # {}
    /\ \E x \in Range(LastCall.args), y \in Range(LastCall.args) :
          x # y /\ Content(x) = Content(y)

(***************************************************************************)
(* C5 - one record per path.                                               *)
(***************************************************************************)
\* every path an update() call was given or enumerated
RECURSIVE ScanAll(_)
ScanAll(dirs) == IF dirs = <<>> THEN <<>> ELSE ScanDir(Head(dirs)) \o ScanAll(Tail(dirs))

SubmittedBy(c) == IF c.mode = "dirs" THEN Range(ScanAll(c.args)) ELSE Range(c.args)

Submitted == UNION {SubmittedBy(calls[n]) : n \in 1..Len(calls)}

\* C5: file_info holds exactly one record for each path ever submitted.
C5_OneRecordPerPath ==
    /\ \A x \in Submitted : \E i \in Indexes : Rec(i).file = x
    /\ \A i \in Indexes, j \in Indexes : Rec(i).file = Rec(j).file => i = j

(***************************************************************************)
(* C6 - idempotent caching.                                                *)
(***************************************************************************)
\* how often the small hash / the full hash of a path was computed so far
SmallReads(fp) ==
    Cardinality({i \in UNION {CallSmall(calls[n]) : n \in 1..Len(calls)} : Rec(i).file = fp})
FullReads(fp) ==
    Cardinality({i \in UNION {CallFull(calls[n]) : n \in 1..Len(calls)} : Rec(i).file = fp})

\* C6: over all update() calls the small hash of a file is computed at most
\* once and its full hash at most once.
C6_IdempotentCaching ==
    \A fp \in Files : SmallReads(fp) <= 1 /\ FullReads(fp) <= 1

(***************************************************************************)
(* C7 - no spurious hashing.                                               *)
(***************************************************************************)
\* C7: in every batch, a record that is alone in its size_dict set after the
\* size merge has neither hash computed, and a record that is alone in its
\* small_hash_dict set after the small hash merge has no full hash computed.
C7_NoSpuriousHashing ==
    \A n \in 1..Len(calls) :
        \A b \in 1..Len(calls[n].batches) :
            LET log == calls[n].batches[b]
            IN  /\ \A i \in log.lone_size :
                      /\ i \notin log.small /\ i \notin log.full
                      /\ Rec(i).small_hash = None /\ Rec(i).full_hash = None
                /\ \A i \in log.lone_small :
                      i \notin log.full /\ Rec(i).full_hash = None

\* one batch held a record of unique size next to hashed ones, and a record
\* with a unique (size, small hash) key next to fully hashed ones
C7_Witness ==
    \E n \in 1..Len(calls) :
        \E b \in 1..Len(calls[n].batches) :
            LET log == calls[n].batches[b]
            IN  /\ log.lone_size # {} /\ log.small # {}
                /\ log.lone_small # {} /\ log.full # {}

(***************************************************************************)
(* C8 - batch-local reporting.                                             *)
(***************************************************************************)
\* C8: update() returns only indexes, and so only paths, of records that the
\* same call ingested.
C8_BatchLocalReporting ==
    JustUpdated =>
        /\ LastCall.result \subseteq CallIngested(LastCall)
        /\ \A x \in Range(ret.paths) :
              \E i \in CallIngested(LastCall) : Rec(i).file = x

\* a returned record shares its full-hash set with a record of an earlier
\* call whose path the call was not given
C8_Witness ==
    /\ JustUpdated
    /\ \E k \in DOMAIN full_hash_dict :
          \E i \in full_hash_dict[k], j \in full_hash_dict[k] :
              /\ j \in LastCall.result
              /\ i \notin CallIngested(LastCall)
              /\ Rec(i).file \notin SubmittedBy(LastCall)

(***************************************************************************)
(* C9 - only real duplicates are yielded.                                  *)
(***************************************************************************)
\* C9: every group that duplicates() yields has at least two members.
C9_GroupsHaveTwoMembers ==
    ret.op = "duplicates" => \A g \in ret.groups : Len(g) >= 2

(***************************************************************************)
(* C10 - directory arguments form one batch.                               *)
(***************************************************************************)
\* update(d1, ..., dn) run as one batch over the files of d1 .. dn
OneBatch(e, dirs) ==
    LET entries == ScanAll(dirs)
    IN  UpdateMultipleFilesWithSize(e,
            [i \in 1..Len(entries) |-> <<entries[i], StatSize(entries[i])>>])

\* C10: a directory-mode update() returns the paths, and leaves the record
\* hashes and the stage indexes, of one batch over the files enumerated from
\* all its directories.
C10_DirectoriesFormOneBatch ==
    [][(Len(calls') = Len(calls) + 1 /\ LastCall'.mode = "dirs") =>
         LET one == OneBatch(Engine, LastCall'.args)
         IN  /\ Range(ret'.paths) = Range(PathsOf(one.e, one.log.result))
             /\ file_info' = one.e.file_info
             /\ size_dict' = one.e.size_dict
             /\ small_hash_dict' = one.e.small_hash_dict
             /\ full_hash_dict' = one.e.full_hash_dict]_vars

(***************************************************************************)
(* C11 - a path that is not a regular file aborts the whole batch.         *)
(***************************************************************************)
\* the step is an update() call
UpdateStep == Len(calls') = Len(calls) + 1

\* the step leaves the record table and the three stage indexes as they were
RegistryUnchanged ==
    UNCHANGED <<file_info, file_index, size_dict, small_hash_dict, full_hash_dict>>

\* C11: a file-mode update() call with a path that is not a regular file
\* among its arguments raises an error and leaves the record table and the
\* three stage indexes as they were.
C11_NonRegularAbortsBatch ==
    [][(/\ UpdateStep
        /\ LastCall'.mode = "files"
        /\ \E n \in 1..Len(LastCall'.args) : ~IsReg(LastCall'.args[n]))
       => (ret'.raised # "none" /\ ret'.paths = <<>> /\ RegistryUnchanged)]_vars

\* a file-mode call on a populated registry failed at a fifo that came after
\* a regular file
C11_Witness ==
    /\ JustUpdated
    /\ Len(calls) > 1
    /\ LastCall.mode = "files"
    /\ Len(LastCall.args) > 1
    /\ IsReg(LastCall.args[1])
    /\ LastCall.args[2] \in Fifos
    /\ ret.raised = "UpdateError"
    /\ file_info # <<>>

(***************************************************************************)
(* C12 - a failing read ends the call at once and nothing is rolled back.  *)
(***************************************************************************)
\* nothing that was in a dictionary before the step is missing after it
DictGrows(d, after) == \A k \in DOMAIN d : k \in DOMAIN after /\ d[k] \subseteq after[k]

\* the step keeps every record with its index, path and size, every hash
\* that was set, and every member of every set of the three stage indexes
RegistryGrows ==
    /\ Len(file_info') >= Len(file_info)
    /\ \A n \in 1..Len(file_info) :
          /\ file_info'[n].index = file_info[n].index
          /\ file_info'[n].file = file_info[n].file
          /\ file_info'[n].file_size = file_info[n].file_size
          /\ file_info[n].small_hash # None => file_info'[n].small_hash = file_info[n].small_hash
          /\ file_info[n].full_hash # None => file_info'[n].full_hash = file_info[n].full_hash
    /\ DictGrows(size_dict, size_dict')
    /\ DictGrows(small_hash_dict, small_hash_dict')
    /\ DictGrows(full_hash_dict, full_hash_dict')

\* C12: when a read of a small or full hash fails during update(), the call
\* raises and returns nothing, the failing read is the last read of the call,
\* and what the call did before is kept: the records it registered, the
\* hashes it computed, the size sets of the indexes it small-hashed and the
\* small hash sets of the indexes it full-hashed, with all that was there
\* before the call.
C12_FailFastNoRollback ==
    [][(UpdateStep /\ LastCall'.failed_read > 0)
       => /\ ret'.raised = "UpdateError"
          /\ ret'.paths = <<>>
          /\ LastCall'.reads = LastCall'.failed_read
          /\ RegistryGrows
          /\ \A i \in CallIngested(LastCall') : i < Len(file_info')
          /\ \A i \in CallSmall(LastCall') :
                /\ file_info'[i + 1].small_hash = GetHash(file_info'[i + 1].file, TRUE)
                /\ i \in DictGet(size_dict', file_info'[i + 1].file_size)
          /\ \A i \in CallFull(LastCall') :
                /\ file_info'[i + 1].full_hash = GetHash(file_info'[i + 1].file, FALSE)
                /\ i \in DictGet(small_hash_dict',
                                  <<file_info'[i + 1].file_size, file_info'[i + 1].small_hash>>)]_vars

\* the read of a full hash failed after the call had registered its files,
\* computed small hashes and one full hash
C12_Witness ==
    /\ JustUpdated
    /\ ret.raised = "UpdateError"
    /\ LastCall.failed_read > 0
    /\ CallIngested(LastCall) # {}
    /\ CallSmall(LastCall) # {}
    /\ CallFull(LastCall) # {}

(***************************************************************************)
(* C13 - an empty batch changes nothing.                                   *)
(***************************************************************************)
\* the arguments resolve to no path at all: no argument, or directories
\* that hold no entry
NoPaths(args) ==
    \/ args = <<>>
    \/ /\ \A n \in 1..Len(args) : args[n] \in Dirs
       /\ ScanAll(args) = <<>>

\* C13: an update() call whose arguments resolve to no path returns the empty
\* tuple and leaves the record table and the three stage indexes, keys
\* included, exactly as they were.
C13_EmptyBatchChangesNothing ==
    [][(UpdateStep /\ NoPaths(LastCall'.args))
       => (ret'.raised = "none" /\ ret'.paths = <<>> /\ RegistryUnchanged)]_vars

\* update() of the empty directory has returned on a populated engine
C13_Witness ==
    /\ JustUpdated
    /\ LastCall.args = <<"dE">>
    /\ LastCall.mode = "dirs"
    /\ Len(LastCall.batches) = 1
    /\ ret.raised = "none"
    /\ size_dict # EmptyDict

(***************************************************************************)
(* C14 - update() raises only the module's own errors.                     *)
(***************************************************************************)
\* the subclasses of JustOneError that update() raises
ModuleErrors == {"UpdateError"}

\* C14: whenever update() fails, for a missing root or a root that is not a
\* directory, a path that cannot be stat'ed, or a read that fails, the
\* exception it raises is UpdateError.
C14_ErrorsAreModuleErrors ==
    (JustUpdated /\ ret.raised # "none") => ret.raised \in ModuleErrors

(***************************************************************************)
(* C15 - exit status of the command line.                                  *)
(***************************************************************************)
\* main() has run
CliRan == cli.out # "idle"

\* C15: with one argument that is neither -h / --help nor an existing
\* directory the exit status is not 0; the exit status is 0 only with no
\* argument, with -h / --help, or after a scan that succeeded.
C15_ExitStatus ==
    CliRan =>
       /\ (/\ Len(cli.argv) = 1
           /\ cli.argv[1] \notin {"-h", "--help"}
           /\ ~IsDir(cli.argv[1])) => cli.status # 0
       /\ cli.status = 0 =>
              \/ cli.argv = <<>>
              \/ Len(cli.argv) = 1 /\ cli.argv[1] \in {"-h", "--help"}
              \/ Len(cli.argv) = 1 /\ IsDir(cli.argv[1]) /\ cli.out = "duplicates"

(***************************************************************************)
(* C16 - what the enumeration of a directory yields.                       *)
(***************************************************************************)
\* the regular files of a subtree, no symbolic link followed: a directory
\* that is not a link is walked, a regular file that is not a link is taken,
\* any other entry is left out
RECURSIVE RegularFilesOf(_)
RegularFilesOf(entries) ==
    IF entries = <<>> THEN {}
    ELSE (IF Head(entries) \in Dirs THEN RegularFilesOf(ScanEntries(Head(entries)))
          ELSE IF Head(entries) \in Files THEN {Head(entries)}
          ELSE {})
         \cup RegularFilesOf(Tail(entries))

\* C16: the paths a directory-mode update() registers for a directory are
\* exactly the regular files of its subtree, none reached through a symbolic
\* link and none that is a fifo or a link.
C16_EnumerationYieldsRegularFiles ==
    (JustUpdated /\ LastCall.mode = "dirs" /\ ret.raised = "none") =>
        \A n \in 1..Len(LastCall.batches) :
            {Rec(i).file : i \in LastCall.batches[n].ingested}
                = RegularFilesOf(ScanEntries(LastCall.args[n]))

(***************************************************************************)
(* C17 - the stage indexes and the record table.                           *)
(***************************************************************************)
\* C17: in every state between operations, after a failed update() too, the
\* indexes filed under a size in size_dict are exactly the indexes of the
\* records of that size; an index filed in small_hash_dict has its small
\* hash set, an index filed in full_hash_dict has its full hash set.
C17_StageIndexInvariant ==
    /\ \A i \in Indexes : i \in DictGet(size_dict, Rec(i).file_size)
    /\ \A k \in DOMAIN size_dict : \A i \in size_dict[k] :
          i \in Indexes /\ Rec(i).file_size = k
    /\ \A k \in DOMAIN small_hash_dict : \A i \in small_hash_dict[k] :
          i \in Indexes /\ Rec(i).small_hash # None
    /\ \A k \in DOMAIN full_hash_dict : \A i \in full_hash_dict[k] :
          i \in Indexes /\ Rec(i).full_hash # None

(***************************************************************************)
(* C18 - the registry only grows.                                          *)
(***************************************************************************)
\* C18: no step, of an update() that returns, of an update() that raises or
\* of duplicates(), removes an index from a set of size_dict, small_hash_dict
\* or full_hash_dict, removes a record, changes the index, path or size of a
\* record, or changes or clears a hash that was set.
C18_RegistryOnlyGrows == [][RegistryGrows]_vars

\* a second update() has added records to a size set that the first call,
\* which computed a small hash and then failed, had left
C18_Witness ==
    /\ Len(calls) = 2
    /\ calls[1].raised = "UpdateError"
    /\ CallSmall(calls[1]) # {}
    /\ calls[2].raised = "none"
    /\ \E i \in CallIngested(calls[1]), j \in CallIngested(calls[2]) :
          {i, j} \subseteq DictGet(size_dict, Rec(i).file_size)

(***************************************************************************)
(* C19 - the stage indexes are nested and keyed by the record's values.    *)
(***************************************************************************)
\* no index is filed under two keys of the dictionary
OneKeyPerIndex(d) ==
    \A k1 \in DOMAIN d, k2 \in DOMAIN d : k1 # k2 => d[k1] \cap d[k2] = {}

\* C19: in every state between operations every index of full_hash_dict is in
\* small_hash_dict and every index of small_hash_dict is in size_dict; an
\* index is filed in small_hash_dict under (file_size, small_hash) of its
\* record and in full_hash_dict under the full_hash of its record; no index
\* is filed under two keys of one dictionary.
C19_FunnelNesting ==
    /\ DictIndexes(full_hash_dict) \subseteq DictIndexes(small_hash_dict)
    /\ DictIndexes(small_hash_dict) \subseteq DictIndexes(size_dict)
    /\ DictIndexes(size_dict) \subseteq Indexes
    /\ \A k \in DOMAIN small_hash_dict : \A i \in small_hash_dict[k] :
          k = <<Rec(i).file_size, Rec(i).small_hash>>
    /\ \A k \in DOMAIN full_hash_dict : \A i \in full_hash_dict[k] :
          k = Rec(i).full_hash
    /\ OneKeyPerIndex(size_dict)
    /\ OneKeyPerIndex(small_hash_dict)
    /\ OneKeyPerIndex(full_hash_dict)

\* after a call that failed, the three indexes are populated and each is
\* strictly inside the one before it
C19_Witness ==
    /\ \E n \in 1..Len(calls) : calls[n].raised = "UpdateError"
    /\ DictIndexes(full_hash_dict) # {}
    /\ DictIndexes(full_hash_dict) # DictIndexes(small_hash_dict)
    /\ DictIndexes(small_hash_dict) # DictIndexes(size_dict)

(***************************************************************************)
(* C20 - a file is never its own duplicate.                                *)
(***************************************************************************)
\* C20: no group of duplicates() holds the same path twice, and every path
\* update() returns has a record of another path with the same content.
C20_NeverOwnDuplicate ==
    /\ \A g \in DuplicateGroups(Engine) :
          \A m \in 1..Len(g), n \in 1..Len(g) : m # n => g[m] # g[n]
    /\ (JustUpdated /\ ret.raised = "none") =>
          \A n \in 1..Len(ret.paths) :
              \E j \in Indexes : /\ Rec(j).file # ret.paths[n]
                                 /\ Content(Rec(j).file) = Content(ret.paths[n])

(***************************************************************************)
(* C21 - the bound check of the record lookup.                             *)
(***************************************************************************)
\* C21: _get_file_info(index) raises GetFileInfoError for every index outside
\* 0 .. len(file_info) - 1, the negative ones included, and otherwise returns
\* the path, size and hashes of the record with that index.
C21_LookupBoundCheck ==
    ret.op = "get" =>
        IF ret.index \in Indexes
        THEN /\ ret.raised = "none"
             /\ Rec(ret.index).index = ret.index
             /\ ret.info = <<Rec(ret.index).file, Rec(ret.index).file_size,
                             Rec(ret.index).small_hash, Rec(ret.index).full_hash>>
        ELSE ret.raised = "GetFileInfoError"

====
